---- MODULE Spec2Model ----
(***************************************************************************)
(* Model of the baby-image service: the three FastAPI handlers of          *)
(* backend/server.py (generate_baby_image, age_progress_image,             *)
(* add_watermark_to_image) and the BabyImageGenerator of                   *)
(* backend/baby_generator.py they call.                                    *)
(*                                                                         *)
(* Each request is handled by a coroutine; the coroutine is suspended at   *)
(* every await (ImageAgent.execute, find_one, insert_one, update_one) and  *)
(* other requests run meanwhile.  One action models the code between two   *)
(* awaits.  The collaborators (image agent, HTTP client, MongoDB, PIL) are *)
(* the environment: what they answer is chosen with \E from small sets.    *)
(*                                                                         *)
(* Conventions: Python's Optional[x] is <<>> for None and <<x>> for x; a   *)
(* byte string is a sequence of 0..255; a base64 text is a sequence of     *)
(* character codes 0..63 (the alphabet), PadChar and JunkChar; an          *)
(* image_id is <<>> for "" and <<n>> for the n-th uuid4 drawn.             *)
(***************************************************************************)
EXTENDS Integers, Sequences, FiniteSets, TLC

\* ---------------------------------------------------------------- bounds
MaxRequests == 3
MaxRecords == 2

Procs == {"r1", "r2"}

\* ------------------------------------------------------- Python plumbing
None == <<>>
Some(x) == <<x>>
IsNone(o) == o = <<>>
Val(o) == o[1]

EmptyStr == <<>>

\* Falsy with the empty-string case forgotten (`if image_data is None`).
FalsyNoneOnly(o) == IsNone(o)

\* `not x` for an Optional[str] whose value is a sequence: None and "" are falsy.
Falsy(o) == IsNone(o) \/ Val(o) = EmptyStr

\* ------------------------------------------------------------- base64
PadChar == 64
JunkChar == PadChar + 1

B64Quad(b) ==
    IF Len(b) = 1 THEN <<b[1] \div 4, (b[1] % 4) * 16, PadChar, PadChar>>
    ELSE IF Len(b) = 2 THEN
        <<b[1] \div 4, (b[1] % 4) * 16 + b[2] \div 16, (b[2] % 16) * 4, PadChar>>
    ELSE <<b[1] \div 4, (b[1] % 4) * 16 + b[2] \div 16,
           (b[2] % 16) * 4 + b[3] \div 64, b[3] % 64>>

RECURSIVE B64Encode(_)
B64Encode(bytes) ==
    IF Len(bytes) = 0 THEN EmptyStr
    ELSE IF Len(bytes) <= 3 THEN B64Quad(bytes)
    ELSE B64Quad(SubSeq(bytes, 1, 3)) \o B64Encode(SubSeq(bytes, 4, Len(bytes)))

\* The bytes a (possibly partial) group of sextets stands for.
QuadBytes(q) ==
    IF Len(q) < 2 THEN <<>>
    ELSE IF Len(q) = 2 THEN <<q[1] * 4 + q[2] \div 16>>
    ELSE IF Len(q) = 3 THEN <<q[1] * 4 + q[2] \div 16, (q[2] % 16) * 16 + q[3] \div 4>>
    ELSE <<q[1] * 4 + q[2] \div 16, (q[2] % 16) * 16 + q[3] \div 4, (q[3] % 4) * 64 + q[4]>>

\* binascii.a2b_base64 in its default, non-strict mode: characters outside the
\* alphabet are skipped, a run of pads that completes a group ends the data, and
\* data that stops inside a group is an error.
RECURSIVE B64Scan(_, _, _, _, _)
B64Scan(s, i, quad, pads, out) ==
    IF i > Len(s) THEN
        IF quad = <<>> THEN [ok |-> TRUE, bytes |-> out] ELSE [ok |-> FALSE, bytes |-> <<>>]
    ELSE IF s[i] = PadChar THEN
        IF Len(quad) >= 2 /\ Len(quad) + pads + 1 >= 4
        THEN [ok |-> TRUE, bytes |-> out \o QuadBytes(quad)]
        ELSE B64Scan(s, i + 1, quad, pads + 1, out)
    ELSE IF s[i] > PadChar THEN B64Scan(s, i + 1, quad, pads, out)
    ELSE IF Len(quad) = 3
        THEN B64Scan(s, i + 1, <<>>, 0, out \o QuadBytes(Append(quad, s[i])))
        ELSE B64Scan(s, i + 1, Append(quad, s[i]), 0, out)

B64Decode(s) == B64Scan(s, 1, <<>>, 0, <<>>)


\* ------------------------------------------------------------ PIL (model)
\* Image.open identifies a file by its leading bytes; the pixel data is read
\* lazily, so a file that is identified but truncated fails at the first use.
JpegMagic == <<255, 216>>

ImageIdentified(bytes) == Len(bytes) >= 2 /\ SubSeq(bytes, 1, 2) = JpegMagic

ImageLoads(bytes) == ImageIdentified(bytes) /\ Len(bytes) >= 3

\* A text is a decodable image when base64 decodes it to bytes PIL fully reads.
DecodableImage(text) ==
    LET d == B64Decode(text) IN d.ok /\ ImageLoads(d.bytes)

\* image.save(output, format='JPEG', quality=95) of the composited raster.
SaveJpeg(bytes) == JpegMagic \o <<(bytes[3] + 100) % 256>>

\* ------------------------------------------------------ the environment
Names == {"Emma"}

AgePrompts == {"baby", "child", "teen", "adult"}

\* The age groups requests are tried with: two of the enumeration, one outside.
RequestedAgeGroups == {"baby", "teen", "unknown"}

StorageDomain == "storage.googleapis.com"

\* A URL is the sequence of its parts; a word of the content is a URL or text.
Url(host, path) == <<"https://", host, path>>
Word(isUrl, parts) == [isUrl |-> isUrl, parts |-> parts]

TrustedUrl == Url(StorageDomain, "/bucket/img.png")
ForeignUrl == Url("example.com", "/img.png")
DomainInPathUrl == Url("example.com", StorageDomain)

AgentResult(raises, success, tools_used, content, error) ==
    [raises |-> raises, success |-> success, tools_used |-> tools_used,
     content |-> content, error |-> error]

\* What ImageAgent.execute may answer (or raise).
AgentResults ==
    { AgentResult(TRUE, FALSE, FALSE, <<>>, "agent crashed"),
      AgentResult(FALSE, FALSE, FALSE, <<>>, "rate limited"),
      AgentResult(FALSE, TRUE, FALSE, <<Word(TRUE, TrustedUrl)>>, ""),
      AgentResult(FALSE, TRUE, TRUE, <<Word(FALSE, <<"Here">>), Word(TRUE, TrustedUrl)>>, ""),
      AgentResult(FALSE, TRUE, TRUE, <<Word(TRUE, ForeignUrl), Word(TRUE, TrustedUrl)>>, ""),
      AgentResult(FALSE, TRUE, TRUE, <<Word(TRUE, DomainInPathUrl)>>, ""),
      AgentResult(FALSE, TRUE, TRUE, <<Word(FALSE, <<"sorry">>)>>, "") }

\* The same, with a failure that names a trusted URL and a content whose
\* trusted URL comes first.
GeneratorResults ==
    AgentResults \cup
    { AgentResult(FALSE, FALSE, TRUE, <<Word(TRUE, TrustedUrl)>>, "quota exceeded"),
      AgentResult(FALSE, TRUE, TRUE, <<Word(TRUE, TrustedUrl), Word(TRUE, ForeignUrl)>>, "") }

ImageA == JpegMagic \o <<1>>
ImageB == JpegMagic \o <<2>>

HttpResponse(raises, status_code, content) ==
    [raises |-> raises, status_code |-> status_code, content |-> content]

\* What requests.get may answer (or raise, on a timeout).
HttpResponses ==
    { HttpResponse(TRUE, 0, <<>>),
      HttpResponse(FALSE, 404, <<7>>),
      HttpResponse(FALSE, 200, <<>>),
      HttpResponse(FALSE, 200, ImageA),
      HttpResponse(FALSE, 200, ImageB) }

\* What a store call may do: complete, or raise a driver error; message is the
\* error's str(), the description the driver raises it with.
DbOutcome(raises, message) == [raises |-> raises, message |-> message]
DbOutcomes ==
    { DbOutcome(FALSE, ""), DbOutcome(TRUE, "connection closed") }

\* The payloads watermark requests are tried with: an image, a truncated
\* image, bytes that are no image, malformed base64, and the empty string.
WatermarkInputs ==
    { B64Encode(ImageA), B64Encode(JpegMagic), B64Encode(<<7>>), <<1>>, EmptyStr }

AgeLabels == {"Child"}


\* ------------------------------------------------- BabyImageGenerator
\* re.findall(r'https?://[^\s\)]+', result.content): the URLs, in order.
RECURSIVE FindAllUrls(_)
FindAllUrls(content) ==
    IF content = <<>> THEN <<>>
    ELSE IF content[1].isUrl THEN <<content[1].parts>> \o FindAllUrls(Tail(content))
    ELSE FindAllUrls(Tail(content))

\* 'storage.googleapis.com' in url: a substring test over the whole URL.
ContainsStorageDomain(url) == \E i \in 1..Len(url) : url[i] = StorageDomain

NoUrl == <<>>

\* What the method returns, with what it did on the way, for the call counts:
\* the number of fetches, the URL fetched, the status of the fetch (0 when there
\* was none or it raised) and the collaborator whose exception was caught.
GeneratorReturn(image, fetches, status, url, fault) ==
    [image |-> image, fetches |-> fetches, status |-> status, url |-> url,
     fault |-> fault, raised |-> FALSE, message |-> ""]

\* The method raising instead of returning: what its caller would see if an
\* exception left it.
GeneratorRaise(fetches, url, fault, message) ==
    [image |-> None, fetches |-> fetches, status |-> 0, url |-> url,
     fault |-> fault, raised |-> TRUE, message |-> message]

NoFetch == GeneratorReturn(None, 0, 0, NoUrl, "")

\* FetchAsBase64 with the status check dropped.
FetchAsBase64AnyStatus(image_url, response) ==
    IF response.raises THEN GeneratorReturn(None, 1, 0, image_url, "fetch")
    ELSE GeneratorReturn(Some(B64Encode(response.content)), 1, response.status_code,
                         image_url, "")

\* FetchAsBase64 trying a failed download a second time.
FetchAsBase64Retrying(image_url, response) ==
    IF response.raises THEN GeneratorReturn(None, 2, 0, image_url, "fetch")
    ELSE IF response.status_code = 200
        THEN GeneratorReturn(Some(B64Encode(response.content)), 1, 200, image_url, "")
        ELSE GeneratorReturn(None, 2, response.status_code, image_url, "")

\* The download of a trusted URL and its conversion to base64.
\* FetchAsBase64 answering a stock payload without any request.
FetchAsBase64Skipped(image_url, response) ==
    GeneratorReturn(Some(B64Encode(ImageA)), 0, 0, NoUrl, "")

FetchAsBase64(image_url, response) ==
    IF response.raises THEN GeneratorReturn(None, 1, 0, image_url, "fetch")
    ELSE IF response.status_code = 200
        THEN GeneratorReturn(Some(B64Encode(response.content)), 1, 200, image_url, "")
        ELSE GeneratorReturn(None, 1, response.status_code, image_url, "")

\* generate_baby_image from the point where the awaited execute() completes.
\* BabyAfterExecute taking the first URL that names the storage domain, wherever
\* it stands among the URLs.
BabyAfterExecuteAnyUrl(result, response) ==
    IF result.raises THEN GeneratorReturn(None, 0, 0, NoUrl, "agent")
    ELSE IF result.success /\ result.tools_used THEN
        LET urls == FindAllUrls(result.content)
            trusted == {i \in 1..Len(urls) : ContainsStorageDomain(urls[i])}
        IN  IF trusted # {}
            THEN FetchAsBase64(urls[CHOOSE i \in trusted : \A j \in trusted : i <= j], response)
            ELSE NoFetch
    ELSE NoFetch

BabyAfterExecute(result, response) ==
    IF result.raises THEN GeneratorReturn(None, 0, 0, NoUrl, "agent")
    ELSE IF result.success /\ result.tools_used THEN
        LET urls == FindAllUrls(result.content) IN
        IF urls # <<>> /\ ContainsStorageDomain(urls[1])
        THEN FetchAsBase64(urls[1], response)
        ELSE NoFetch
    ELSE NoFetch

\* AgeGroupValid with the membership test dropped.
AgeGroupValidAlways(age_group) == TRUE

\* age_group not in age_prompts
AgeGroupValid(age_group) == age_group \in AgePrompts

\* AgedAfterExecute without its try/except: an exception of execute() or of
\* requests.get leaves the method.
AgedAfterExecuteUncaught(result, response) ==
    IF result.raises THEN GeneratorRaise(0, NoUrl, "agent", result.error)
    ELSE IF result.success /\ result.tools_used THEN
        LET urls == FindAllUrls(result.content) IN
        IF urls # <<>> /\ ContainsStorageDomain(urls[1])
        THEN IF response.raises THEN GeneratorRaise(1, urls[1], "fetch", "timed out")
             ELSE FetchAsBase64(urls[1], response)
        ELSE NoFetch
    ELSE NoFetch

\* generate_aged_image from the point where the awaited execute() completes.
AgedAfterExecute(result, response) ==
    IF result.raises THEN GeneratorReturn(None, 0, 0, NoUrl, "agent")
    ELSE IF result.success /\ result.tools_used THEN
        LET urls == FindAllUrls(result.content) IN
        IF urls # <<>> /\ ContainsStorageDomain(urls[1])
        THEN FetchAsBase64(urls[1], response)
        ELSE NoFetch
    ELSE NoFetch

\* WatermarkFallback returning an empty payload instead of the original.
WatermarkFallbackEmpty(base64_image) == EmptyStr

\* The except branch of add_watermark: the original payload.
WatermarkFallback(base64_image) == base64_image

\* EncodeWatermarked with the base64 step forgotten.
EncodeWatermarkedRaw(image_data) == SaveJpeg(image_data)

\* The try body's last lines: save as JPEG, encode as base64.
EncodeWatermarked(image_data) == B64Encode(SaveJpeg(image_data))

\* add_watermark.  drawFails is the environment's choice that drawing or
\* saving raises for an image that was read.
AddWatermark(base64_image, name, age, drawFails) ==
    LET decoded == B64Decode(base64_image) IN
    IF ~decoded.ok THEN [text |-> WatermarkFallback(base64_image), composited |-> FALSE]
    ELSE IF ~ImageLoads(decoded.bytes)
        THEN [text |-> WatermarkFallback(base64_image), composited |-> FALSE]
    ELSE IF drawFails
        THEN [text |-> WatermarkFallback(base64_image), composited |-> FALSE]
    ELSE [text |-> EncodeWatermarked(decoded.bytes), composited |-> TRUE]


\* ---------------------------------------- add_watermark: text placement
MinFontSize == 20
BottomMargin == 20
Padding == 10

\* FontSize without the lower limit.
FontSizeUnclamped(height) == (height * 4) \div 100

\* max(20, int(height * 0.04)): for a height h >= 0 the double h * 0.04 truncates
\* to the integer floor of 4h/100.
FontSize(height) ==
    LET scaled == (height * 4) \div 100
    IN  IF scaled > MinFontSize THEN scaled ELSE MinFontSize

\* x = (width - text_width) // 2; y = height - text_height - 20.
TextOrigin(width, height, text_width, text_height) ==
    [x |-> (width - text_width) \div 2, y |-> height - text_height - BottomMargin]

\* The rectangle drawn behind the text: [left, top, right, bottom].
BackgroundBox(x, y, text_width, text_height) ==
    [left |-> x - Padding, top |-> y - Padding,
     right |-> x + text_width + Padding, bottom |-> y + text_height + Padding]

\* image.size of the rasters, and the sizes draw.textbbox may measure.
ImageWidths == {1, 64, 65, 1024}
ImageHeights == {1, 30, 499, 500, 524, 525, 1024}
TextWidths == {0, 7, 40, 200}
TextHeights == {0, 11, 38}


\* ------------------------------------------------------------ server.py
VARIABLES
    lifespan,        \* the lifespan startup ran: app.state.db and agent_config are set
    baby_generator,  \* app.state.baby_generator exists
    store,           \* db.baby_images: _id -> document
    uuids,           \* how many uuid4 values were drawn
    clock,           \* requests started so far; also the value of datetime.now
    pc,              \* where each request's coroutine is suspended
    req,             \* the request each coroutine handles
    locals,          \* baby_record / image_data / image_id of each coroutine
    reply,           \* what the handler returned or raised
    calls,           \* collaborator calls made for the current request
    writeLog,        \* history: the update_one writes applied, in order
    served,          \* history: <<image_id, age_group, payload>> of successful replies
    raced,           \* history: pairs two requests generated for concurrently
    layout,          \* the text placement add_watermark is computing for a raster
    attempt          \* one call of a generator method: what it met, what it returned

server == <<lifespan, baby_generator, store, uuids, clock, pc, req, locals, reply,
            calls, writeLog, served, raced>>

vars == <<lifespan, baby_generator, store, uuids, clock, pc, req, locals, reply,
          calls, writeLog, served, raced, layout, attempt>>

\* Uuid drawing the same value every time.
UuidConstant(n) == <<1>>

Uuid(n) == <<n>>

EmptyMap == [k \in {} |-> EmptyStr]

\* Error strings of the handlers.
BabyFailed == "Failed to generate baby image"
AgedFailed == "Failed to generate aged image"
NotFound == "Baby image not found"
DbNotReady == "Database not ready"
NoAgentConfig == "'State' object has no attribute 'agent_config'"

NoRequest ==
    [op |-> "none", name |-> "", image_id |-> EmptyStr, age_group |-> "",
     image_data |-> EmptyStr, age |-> ""]

NoLocals == [baby_record |-> <<"unset">>, image_data |-> None, image_id |-> EmptyStr]

NoCalls ==
    [agent |-> 0, fetch |-> 0, fetch_status |-> 0, fetched_url |-> NoUrl, fault |-> "",
     find_one |-> 0, insert_one |-> 0, update_one |-> 0]

\* The call counts after the generator method returned `got`.
Noted(counts, got) ==
    [counts EXCEPT !.fetch = @ + got.fetches, !.fetch_status = got.status,
                   !.fetched_url = got.url, !.fault = got.fault]

Reply(kind, success, image_id, image_data, age_group, watermarked_image, error, status_code, path) ==
    [kind |-> kind, success |-> success, image_id |-> image_id, image_data |-> image_data,
     age_group |-> age_group, watermarked_image |-> watermarked_image, error |-> error,
     status_code |-> status_code, path |-> path]

NoReply == Reply("none", FALSE, EmptyStr, None, "", None, None, 0, "")

\* The response models; `path` is a history label of the branch that built it.
BabyGenerateResponse(success, image_id, image_data, error, path) ==
    Reply("returned", success, image_id, image_data, "", None, error, 200, path)

AgeProgressResponse(success, image_data, age_group, error, path) ==
    Reply("returned", success, EmptyStr, image_data, age_group, None, error, 200, path)

WatermarkResponse(success, watermarked_image, error, path) ==
    Reply("returned", success, EmptyStr, None, "", watermarked_image, error, 200, path)

\* raise HTTPException(status_code=503, detail="Database not ready"), which the
\* handlers' `except HTTPException: raise` lets through.
HttpExceptionRaised(status_code, detail) ==
    Reply("raised", FALSE, EmptyStr, None, "", None, Some(detail), status_code, "db_not_ready")

\* _ensure_db: is app.state.db there?
EnsureDb(started) == started

\* _get_baby_generator: the generator is there, or can be built from agent_config.
GetBabyGenerator(has_generator, started) == has_generator \/ started

\* AgeExcept letting the exception through instead of converting it.
AgeExceptPropagates(age_group, message) ==
    Reply("raised", FALSE, EmptyStr, None, age_group, None, Some(message), 500, "exception")

\* `except Exception as exc` of the three handlers: a failure with str(exc).
BabyExcept(message) == BabyGenerateResponse(FALSE, EmptyStr, None, Some(message), "exception")
AgeExcept(age_group, message) == AgeProgressResponse(FALSE, None, age_group, Some(message), "exception")
WatermarkExcept(message) == WatermarkResponse(FALSE, None, Some(message), "exception")

\* NotFoundResponse reusing the generation-failure message.
NotFoundResponseGeneric(age_group) ==
    AgeProgressResponse(FALSE, None, age_group, Some(AgedFailed), "not_found")

\* The reply of `if not baby_record`.
NotFoundResponse(age_group) ==
    AgeProgressResponse(FALSE, None, age_group, Some(NotFound), "not_found")

\* CacheHit with the cache check lost.
CacheHitNever(age_versions, age_group) == FALSE

\* age_request.age_group in age_versions
CacheHit(age_versions, age_group) == age_group \in DOMAIN age_versions

\* insert_one(baby_record)
InsertOne(documents, baby_record) == documents @@ (baby_record.id :> baby_record)

\* UpdateOne setting the whole age_versions field instead of one path in it.
UpdateOneReplacesMap(documents, image_id, age_group, aged_image) ==
    IF image_id \notin DOMAIN documents THEN documents
    ELSE [documents EXCEPT ![image_id].age_versions = (age_group :> aged_image)]

\* UpdateOne writing the payload over original_image as well.
UpdateOneTouchesOriginal(documents, image_id, age_group, aged_image) ==
    IF image_id \notin DOMAIN documents THEN documents
    ELSE [documents EXCEPT
            ![image_id].original_image = aged_image,
            ![image_id].age_versions =
              [k \in DOMAIN @ \cup {age_group} |-> IF k = age_group THEN aged_image ELSE @[k]]]

\* UpdateOne leaving an entry that is already there.
UpdateOneKeepsFirst(documents, image_id, age_group, aged_image) ==
    IF image_id \notin DOMAIN documents THEN documents
    ELSE IF age_group \in DOMAIN documents[image_id].age_versions THEN documents
    ELSE [documents EXCEPT ![image_id].age_versions =
            [k \in DOMAIN @ \cup {age_group} |-> IF k = age_group THEN aged_image ELSE @[k]]]

\* update_one({"_id": image_id}, {"$set": {"age_versions.<age_group>": aged_image}})
UpdateOne(documents, image_id, age_group, aged_image) ==
    IF image_id \notin DOMAIN documents THEN documents
    ELSE [documents EXCEPT ![image_id].age_versions =
            [k \in DOMAIN @ \cup {age_group} |-> IF k = age_group THEN aged_image ELSE @[k]]]

\* A placement in progress: the raster's size, then the font size and the
\* measured text, then the origin and the box.
Layout(stage, width, height, font_size, text_width, text_height, x, y, box) ==
    [stage |-> stage, width |-> width, height |-> height, font_size |-> font_size,
     text_width |-> text_width, text_height |-> text_height, x |-> x, y |-> y, box |-> box]

NoBox == BackgroundBox(0, 0, 0, 0)

\* The handlers carry rasters as bytes without a size: no placement.
NoLayout == Layout("none", 0, 0, 0, 0, 0, 0, 0, NoBox)

\* No request was made yet and the lifespan startup did not run.
ServerIdle ==
    /\ lifespan = FALSE
    /\ baby_generator = FALSE
    /\ store = [i \in {} |-> NoRequest]
    /\ uuids = 0
    /\ clock = 0
    /\ pc = [p \in Procs |-> "idle"]
    /\ req = [p \in Procs |-> NoRequest]
    /\ locals = [p \in Procs |-> NoLocals]
    /\ reply = [p \in Procs |-> NoReply]
    /\ calls = [p \in Procs |-> NoCalls]
    /\ writeLog = <<>>
    /\ served = {}
    /\ raced = {}

\* One call of generate_baby_image or generate_aged_image: the age group asked
\* for, what execute() and requests.get answer, and what the method returned.
Attempt(stage, method, age_group, result, response, agent_calls, fetches, image) ==
    [stage |-> stage, method |-> method, age_group |-> age_group, result |-> result,
     response |-> response, agent_calls |-> agent_calls, fetches |-> fetches,
     image |-> image]

\* The handlers' requests are followed in pc, locals and calls: no separate call.
NoAttempt ==
    Attempt("none", "", "", AgentResult(FALSE, FALSE, FALSE, <<>>, ""),
            HttpResponse(FALSE, 0, <<>>), 0, 0, None)

Init == ServerIdle /\ layout = NoLayout /\ attempt = NoAttempt

\* The lifespan context manager up to its yield.
LifespanStartup ==
    /\ ~lifespan
    /\ lifespan' = TRUE
    /\ UNCHANGED <<layout, attempt, baby_generator, store, uuids, clock, pc, req, locals, reply, calls,
                   writeLog, served, raced>>

\* A coroutine is free for the next request; MaxRequests bounds how many start.
CanStart(p) == pc[p] \in {"idle", "done"} /\ clock < MaxRequests

\* The request begins: the previous one's locals, reply and call counts go.
Begin(p, request) ==
    /\ req' = [req EXCEPT ![p] = request]
    /\ clock' = clock + 1

Finish(p, response) ==
    /\ pc' = [pc EXCEPT ![p] = "done"]
    /\ reply' = [reply EXCEPT ![p] = response]

Suspend(p, at) ==
    /\ pc' = [pc EXCEPT ![p] = at]
    /\ reply' = [reply EXCEPT ![p] = NoReply]


\* -------------------------------------------- POST /api/baby/generate
BabyRequest(name) == [NoRequest EXCEPT !.op = "generate_baby", !.name = name]

\* Up to the await of ImageAgent.execute inside generate_baby_image.  The second
\* conjunct keeps the uuids drawn within MaxRecords.
GenerateBabyStart(p, name) ==
    /\ CanStart(p)
    /\ uuids + Cardinality({q \in Procs : pc[q] = "baby_execute"}) < MaxRecords
    /\ Begin(p, BabyRequest(name))
    /\ locals' = [locals EXCEPT ![p] = NoLocals]
    /\ IF ~EnsureDb(lifespan)
       THEN /\ Finish(p, HttpExceptionRaised(503, DbNotReady))
            /\ calls' = [calls EXCEPT ![p] = NoCalls]
            /\ UNCHANGED baby_generator
       ELSE IF ~GetBabyGenerator(baby_generator, lifespan)
       THEN /\ Finish(p, BabyExcept(NoAgentConfig))
            /\ calls' = [calls EXCEPT ![p] = NoCalls]
            /\ UNCHANGED baby_generator
       ELSE /\ Suspend(p, "baby_execute")
            /\ calls' = [calls EXCEPT ![p] = [NoCalls EXCEPT !.agent = 1]]
            /\ baby_generator' = TRUE
    /\ UNCHANGED <<layout, attempt, lifespan, store, uuids, writeLog, served, raced>>

\* execute() completes; the rest of generate_baby_image, then the handler up
\* to the await of insert_one.
BabyExecuteReturns(p) ==
    /\ pc[p] = "baby_execute"
    /\ \E result \in AgentResults, response \in HttpResponses :
        LET got == BabyAfterExecute(result, response)
            image_id == Uuid(uuids + 1)
            baby_record == [id |-> image_id, name |-> req[p].name,
                            original_image |-> Val(got.image),
                            age_versions |-> EmptyMap, created_at |-> clock]
        IN  IF got.raised
            THEN /\ Finish(p, BabyExcept(got.message))
                 /\ calls' = [calls EXCEPT ![p] = Noted(@, got)]
                 /\ UNCHANGED <<uuids, locals>>
            ELSE IF Falsy(got.image)
            THEN /\ Finish(p, BabyGenerateResponse(FALSE, EmptyStr, None, Some(BabyFailed),
                                                   "generation_failed"))
                 /\ calls' = [calls EXCEPT ![p] = Noted(@, got)]
                 /\ UNCHANGED <<uuids, locals>>
            ELSE /\ Suspend(p, "insert_one")
                 /\ uuids' = uuids + 1
                 /\ locals' = [locals EXCEPT ![p] =
                        [baby_record |-> <<"doc", baby_record>>, image_data |-> got.image,
                         image_id |-> image_id]]
                 /\ calls' = [calls EXCEPT ![p] = [Noted(@, got) EXCEPT !.insert_one = 1]]
    /\ UNCHANGED <<layout, attempt, lifespan, baby_generator, store, clock, req, writeLog, served, raced>>

\* insert_one completes or raises; the handler returns.
InsertOneReturns(p) ==
    /\ pc[p] = "insert_one"
    /\ \E db \in DbOutcomes :
        IF db.raises
        THEN /\ Finish(p, BabyExcept(db.message))
             /\ UNCHANGED store
        ELSE /\ store' = InsertOne(store, locals[p].baby_record[2])
             /\ Finish(p, BabyGenerateResponse(TRUE, locals[p].image_id,
                                               locals[p].image_data, None, "created"))
    /\ UNCHANGED <<layout, attempt, lifespan, baby_generator, uuids, clock, req, locals, calls, writeLog,
                   served, raced>>

\* ---------------------------------------- POST /api/baby/age-progress
AgeRequest(image_id, name, age_group) ==
    [NoRequest EXCEPT !.op = "age_progress", !.image_id = image_id, !.name = name,
                      !.age_group = age_group]

RequestIds == {Uuid(n) : n \in 1..MaxRecords}

SamePair(p, q) == /\ req[q].op = "age_progress"
                  /\ req[q].image_id = req[p].image_id
                  /\ req[q].age_group = req[p].age_group

\* Up to the await of find_one.
AgeProgressStart(p, image_id, name, age_group) ==
    /\ CanStart(p)
    /\ Begin(p, AgeRequest(image_id, name, age_group))
    /\ locals' = [locals EXCEPT ![p] = NoLocals]
    /\ IF ~EnsureDb(lifespan)
       THEN /\ Finish(p, HttpExceptionRaised(503, DbNotReady))
            /\ calls' = [calls EXCEPT ![p] = NoCalls]
            /\ UNCHANGED baby_generator
       ELSE IF ~GetBabyGenerator(baby_generator, lifespan)
       THEN /\ Finish(p, AgeExcept(age_group, NoAgentConfig))
            /\ calls' = [calls EXCEPT ![p] = NoCalls]
            /\ UNCHANGED baby_generator
       ELSE /\ Suspend(p, "find_one")
            /\ calls' = [calls EXCEPT ![p] = [NoCalls EXCEPT !.find_one = 1]]
            /\ baby_generator' = TRUE
    /\ UNCHANGED <<layout, attempt, lifespan, store, uuids, writeLog, served, raced>>

\* find_one completes or raises; the not-found return, the cache check, and
\* generate_aged_image up to the await of execute().
FindOneReturns(p) ==
    /\ pc[p] = "find_one"
    /\ \E db \in DbOutcomes :
        LET image_id == req[p].image_id
            age_group == req[p].age_group
        IN  IF db.raises
            THEN /\ Finish(p, AgeExcept(age_group, db.message))
                 /\ UNCHANGED <<locals, calls, served, raced>>
            ELSE IF image_id \notin DOMAIN store
            THEN /\ Finish(p, NotFoundResponse(age_group))
                 /\ locals' = [locals EXCEPT ![p].baby_record = <<"none">>]
                 /\ UNCHANGED <<calls, served, raced>>
            ELSE IF CacheHit(store[image_id].age_versions, age_group)
            THEN /\ Finish(p, AgeProgressResponse(TRUE,
                                 Some(store[image_id].age_versions[age_group]),
                                 age_group, None, "cache"))
                 /\ locals' = [locals EXCEPT ![p].baby_record = <<"doc", store[image_id]>>]
                 /\ served' = served \cup
                        {<<image_id, age_group, store[image_id].age_versions[age_group]>>}
                 /\ UNCHANGED <<calls, raced>>
            ELSE IF ~AgeGroupValid(age_group)
            THEN /\ Finish(p, AgeProgressResponse(FALSE, None, age_group, Some(AgedFailed),
                                                  "invalid_age_group"))
                 /\ locals' = [locals EXCEPT ![p].baby_record = <<"doc", store[image_id]>>]
                 /\ UNCHANGED <<calls, served, raced>>
            ELSE /\ Suspend(p, "aged_execute")
                 /\ locals' = [locals EXCEPT ![p].baby_record = <<"doc", store[image_id]>>]
                 /\ calls' = [calls EXCEPT ![p].agent = @ + 1]
                 /\ raced' = IF \E q \in Procs \ {p} :
                                    SamePair(p, q) /\ pc[q] \in {"aged_execute", "update_one"}
                             THEN raced \cup {<<image_id, age_group>>}
                             ELSE raced
                 /\ UNCHANGED served
    /\ UNCHANGED <<layout, attempt, lifespan, baby_generator, store, uuids, clock, req, writeLog>>

\* execute() completes; the rest of generate_aged_image, then the handler up
\* to the await of update_one.
AgedExecuteReturns(p) ==
    /\ pc[p] = "aged_execute"
    /\ \E result \in AgentResults, response \in HttpResponses :
        LET got == AgedAfterExecute(result, response)
        IN  IF got.raised
            THEN /\ Finish(p, AgeExcept(req[p].age_group, got.message))
                 /\ calls' = [calls EXCEPT ![p] = Noted(@, got)]
                 /\ UNCHANGED locals
            ELSE IF Falsy(got.image)
            THEN /\ Finish(p, AgeProgressResponse(FALSE, None, req[p].age_group,
                                                  Some(AgedFailed), "generation_failed"))
                 /\ calls' = [calls EXCEPT ![p] = Noted(@, got)]
                 /\ UNCHANGED locals
            ELSE /\ Suspend(p, "update_one")
                 /\ locals' = [locals EXCEPT ![p].image_data = got.image]
                 /\ calls' = [calls EXCEPT ![p] = [Noted(@, got) EXCEPT !.update_one = 1]]
    /\ UNCHANGED <<layout, attempt, lifespan, baby_generator, store, uuids, clock, req, writeLog, served,
                   raced>>

\* update_one completes or raises; the handler returns.
UpdateOneReturns(p) ==
    /\ pc[p] = "update_one"
    /\ \E db \in DbOutcomes :
        LET image_id == req[p].image_id
            age_group == req[p].age_group
            aged_image == Val(locals[p].image_data)
        IN  IF db.raises
            THEN /\ Finish(p, AgeExcept(age_group, db.message))
                 /\ UNCHANGED <<store, writeLog, served>>
            ELSE /\ store' = UpdateOne(store, image_id, age_group, aged_image)
                 /\ writeLog' = Append(writeLog, <<image_id, age_group, aged_image>>)
                 /\ served' = served \cup {<<image_id, age_group, aged_image>>}
                 /\ Finish(p, AgeProgressResponse(TRUE, Some(aged_image), age_group, None,
                                                  "generated"))
    /\ UNCHANGED <<layout, attempt, lifespan, baby_generator, uuids, clock, req, locals, calls, raced>>

\* ------------------------------------------- POST /api/baby/watermark
WatermarkRequest(image_data, name, age) ==
    [NoRequest EXCEPT !.op = "watermark", !.image_data = image_data, !.name = name,
                      !.age = age]

\* AddWatermarkToImage keeping the payload it was sent in the records.
AddWatermarkToImageSaving(p, image_data, name, age) ==
    /\ CanStart(p)
    /\ Begin(p, WatermarkRequest(image_data, name, age))
    /\ locals' = [locals EXCEPT ![p] = NoLocals]
    /\ calls' = [calls EXCEPT ![p] = [NoCalls EXCEPT !.update_one = 1]]
    /\ store' = [i \in DOMAIN store |-> [store[i] EXCEPT !.original_image = image_data]]
    /\ baby_generator' = TRUE
    /\ \E drawFails \in BOOLEAN :
        LET marked == AddWatermark(image_data, name, age, drawFails)
        IN  Finish(p, WatermarkResponse(TRUE, Some(marked.text), None,
                          IF marked.composited THEN "composited" ELSE "fallback"))
    /\ UNCHANGED <<layout, attempt, lifespan, uuids, writeLog, served, raced>>

\* The whole handler: it awaits nothing.
AddWatermarkToImage(p, image_data, name, age) ==
    /\ CanStart(p)
    /\ Begin(p, WatermarkRequest(image_data, name, age))
    /\ locals' = [locals EXCEPT ![p] = NoLocals]
    /\ calls' = [calls EXCEPT ![p] = NoCalls]
    /\ IF ~GetBabyGenerator(baby_generator, lifespan)
       THEN /\ Finish(p, WatermarkExcept(NoAgentConfig))
            /\ UNCHANGED baby_generator
       ELSE /\ baby_generator' = TRUE
            /\ \E drawFails \in BOOLEAN :
                LET marked == AddWatermark(image_data, name, age, drawFails)
                IN  Finish(p, WatermarkResponse(TRUE, Some(marked.text), None,
                                  IF marked.composited THEN "composited" ELSE "fallback"))
    /\ UNCHANGED <<layout, attempt, lifespan, store, uuids, writeLog, served, raced>>

Next ==
    \/ LifespanStartup
    \/ \E p \in Procs, name \in Names : GenerateBabyStart(p, name)
    \/ \E p \in Procs : BabyExecuteReturns(p)
    \/ \E p \in Procs : InsertOneReturns(p)
    \/ \E p \in Procs, image_id \in RequestIds, name \in Names,
          age_group \in RequestedAgeGroups : AgeProgressStart(p, image_id, name, age_group)
    \/ \E p \in Procs : FindOneReturns(p)
    \/ \E p \in Procs : AgedExecuteReturns(p)
    \/ \E p \in Procs : UpdateOneReturns(p)
    \/ \E p \in Procs, image_data \in WatermarkInputs, name \in Names, age \in AgeLabels :
          AddWatermarkToImage(p, image_data, name, age)

Spec == Init /\ [][Next]_vars


\* ------------------------- add_watermark's placement, raster by raster
\* Image.open gave a raster of some size.
LayoutInit ==
    /\ ServerIdle
    /\ \E width \in ImageWidths, height \in ImageHeights :
         layout = Layout("opened", width, height, 0, 0, 0, 0, 0, NoBox)
    /\ attempt = NoAttempt

\* The font size is fixed and textbbox measures the text.
MeasureText ==
    /\ layout.stage = "opened"
    /\ \E text_width \in TextWidths, text_height \in TextHeights :
         layout' = [layout EXCEPT !.stage = "measured",
                                  !.font_size = FontSize(layout.height),
                                  !.text_width = text_width,
                                  !.text_height = text_height]
    /\ UNCHANGED <<server, attempt>>

\* The origin of the text and the rectangle drawn behind it.
DrawBackground ==
    /\ layout.stage = "measured"
    /\ LET at == TextOrigin(layout.width, layout.height, layout.text_width,
                            layout.text_height)
       IN  layout' = [layout EXCEPT !.stage = "drawn", !.x = at.x, !.y = at.y,
                         !.box = BackgroundBox(at.x, at.y, layout.text_width,
                                               layout.text_height)]
    /\ UNCHANGED <<server, attempt>>

LayoutNext == MeasureText \/ DrawBackground

LayoutSpec == LayoutInit /\ [][LayoutNext]_vars


\* ------------------------ the generator's methods, call by call
\* A method is called; the environment has fixed what its collaborators answer.
GeneratorInit ==
    /\ ServerIdle
    /\ layout = NoLayout
    /\ \E result \in GeneratorResults, response \in HttpResponses :
         \/ attempt = Attempt("called", "generate_baby_image", "", result, response,
                              0, 0, None)
         \/ \E age_group \in RequestedAgeGroups :
              attempt = Attempt("called", "generate_aged_image", age_group, result,
                                response, 0, 0, None)

\* generate_baby_image, from its call to its return.
GenerateBabyImage ==
    /\ attempt.stage = "called"
    /\ attempt.method = "generate_baby_image"
    /\ LET got == BabyAfterExecute(attempt.result, attempt.response)
       IN  attempt' = [attempt EXCEPT !.stage = "returned", !.agent_calls = 1,
                                      !.fetches = got.fetches, !.image = got.image]
    /\ UNCHANGED <<server, layout>>

\* generate_aged_image, from its call to its return.
GenerateAgedImage ==
    /\ attempt.stage = "called"
    /\ attempt.method = "generate_aged_image"
    /\ IF ~AgeGroupValid(attempt.age_group)
       THEN attempt' = [attempt EXCEPT !.stage = "returned"]
       ELSE LET got == AgedAfterExecute(attempt.result, attempt.response)
            IN  attempt' = [attempt EXCEPT !.stage = "returned", !.agent_calls = 1,
                                           !.fetches = got.fetches, !.image = got.image]
    /\ UNCHANGED <<server, layout>>

GeneratorNext == GenerateBabyImage \/ GenerateAgedImage

GeneratorSpec == GeneratorInit /\ [][GeneratorNext]_vars


\* ------------------------------------------------------------ properties
IsAge(p) == req[p].op = "age_progress"
IsBaby(p) == req[p].op = "generate_baby"
IsWatermark(p) == req[p].op = "watermark"
Returned(p) == pc[p] = "done" /\ reply[p].kind = "returned"

\* The step in which p's find_one returns the document of p's request.
ReadsRecord(p) == pc[p] = "find_one" /\ locals'[p].baby_record[1] = "doc"

\* C1: when an age-progress request reads a record whose age_versions already
\* holds the requested age group with value V, it returns success with V, makes no
\* call of the image agent and no fetch, and leaves the store as it was.
C1_CachedVariantServed ==
    [][\A p \in Procs :
        (/\ ReadsRecord(p)
         /\ req[p].age_group \in DOMAIN store[req[p].image_id].age_versions)
        => (/\ pc'[p] = "done"
            /\ reply'[p].kind = "returned"
            /\ reply'[p].success
            /\ reply'[p].image_data =
                 Some(store[req[p].image_id].age_versions[req[p].age_group])
            /\ calls'[p].agent = 0
            /\ calls'[p].fetch = 0
            /\ calls'[p].update_one = 0
            /\ store' = store)]_vars

\* A request was answered from the cache with the stored value.
C1_Witness ==
    \E p \in Procs :
        /\ Returned(p) /\ IsAge(p) /\ reply[p].path = "cache"
        /\ reply[p].image_data = Some(store[req[p].image_id].age_versions[req[p].age_group])

\* C2: every reply generate_baby returns is either a success with a non-empty
\* base64 payload and a non-empty id that names the new record and no other
\* reply, or a failure with a non-empty error, no payload and an empty id.
C2_BabyReplyShape ==
    \A p \in Procs :
        (Returned(p) /\ IsBaby(p)) =>
            \/ /\ reply[p].success
               /\ ~IsNone(reply[p].image_data) /\ Val(reply[p].image_data) # EmptyStr
               /\ reply[p].image_id # EmptyStr
               /\ reply[p].image_id \in DOMAIN store
               /\ store[reply[p].image_id].original_image = Val(reply[p].image_data)
               /\ \A q \in Procs \ {p} :
                    (Returned(q) /\ IsBaby(q) /\ reply[q].success)
                        => reply[q].image_id # reply[p].image_id
            \/ /\ ~reply[p].success
               /\ ~IsNone(reply[p].error) /\ Val(reply[p].error) # ""
               /\ reply[p].image_id = EmptyStr
               /\ IsNone(reply[p].image_data)

\* generate_baby failed on a 200 answer with an empty body, and succeeded too.
C2_Witness ==
    \E p, q \in Procs :
        /\ Returned(p) /\ IsBaby(p) /\ ~reply[p].success /\ calls[p].fetch_status = 200
        /\ Returned(q) /\ IsBaby(q) /\ reply[q].success


InvalidGroup(p) == IsAge(p) /\ req[p].age_group \notin AgePrompts

MadeNoCall(p) ==
    /\ calls[p].agent = 0 /\ calls[p].fetch = 0 /\ calls[p].find_one = 0
    /\ calls[p].insert_one = 0 /\ calls[p].update_one = 0

\* C3 as stated: a request with an age group outside the enumeration fails
\* having called no collaborator at all: no agent, no fetch, no store call.
C3_Original ==
    \A p \in Procs :
        (InvalidGroup(p) /\ Returned(p)) => (~reply[p].success /\ MadeNoCall(p))

\* C3, amended: a request with an age group outside the enumeration never
\* succeeds and never calls the image agent, the fetch or a store write; the one
\* collaborator call it makes is the find_one read that precedes the validation.
C3_InvalidGroupNoGeneration ==
    \A p \in Procs :
        InvalidGroup(p) =>
            /\ calls[p].agent = 0 /\ calls[p].fetch = 0
            /\ calls[p].insert_one = 0 /\ calls[p].update_one = 0
            /\ calls[p].find_one <= 1
            /\ pc[p] \in {"find_one", "done"}
            /\ pc[p] = "done" => ~reply[p].success
            /\ Returned(p) => calls[p].find_one = 1

\* An invalid age group was rejected for a record that exists.
C3_Witness ==
    \E p \in Procs :
        /\ InvalidGroup(p) /\ Returned(p) /\ locals[p].baby_record[1] = "doc"
        /\ reply[p].path = "invalid_age_group" /\ calls[p].find_one = 1

\* The error texts that name the invalid age group.
InvalidAgeGroupErrors == {"Invalid age group: " \o g : g \in RequestedAgeGroups \ AgePrompts}

\* C4 as stated: the failure for an age group outside the enumeration carries an
\* error that mentions the invalid age group and differs from the error a failed
\* generation for a valid age group carries.
C4_Original ==
    \A p \in Procs :
        (InvalidGroup(p) /\ Returned(p) /\ locals[p].baby_record[1] = "doc") =>
            /\ ~reply[p].success
            /\ ~IsNone(reply[p].error)
            /\ Val(reply[p].error) \in InvalidAgeGroupErrors
            /\ \A q \in Procs :
                 (IsAge(q) /\ Returned(q) /\ reply[q].path = "generation_failed")
                     => reply[q].error # reply[p].error

\* The update_one writes applied for a pair, and the payloads served for it.
WritesOf(image_id, age_group) ==
    {i \in 1..Len(writeLog) : writeLog[i][1] = image_id /\ writeLog[i][2] = age_group}

ServedOf(image_id, age_group) ==
    {t[3] : t \in {u \in served : u[1] = image_id /\ u[2] = age_group}}

\* C5 as stated: under any interleaving, an entry of age_versions is never
\* removed and never overwritten with a different value.
C5_Original ==
    [][\A i \in DOMAIN store :
        /\ i \in DOMAIN store'
        /\ \A g \in DOMAIN store[i].age_versions :
             /\ g \in DOMAIN store'[i].age_versions
             /\ store'[i].age_versions[g] = store[i].age_versions[g]]_vars

\* C5, amended: an entry of age_versions is never removed, and once present it
\* is overwritten only by a request that read the record before the entry was
\* there (a concurrent first-time request for the same pair); a request that read
\* the record with the entry present never overwrites it.
C5_EntriesKeptUnlessRaced ==
    [][\A i \in DOMAIN store :
        /\ i \in DOMAIN store'
        /\ \A g \in DOMAIN store[i].age_versions :
             /\ g \in DOMAIN store'[i].age_versions
             /\ store'[i].age_versions[g] # store[i].age_versions[g] =>
                  \E p \in Procs :
                     /\ pc[p] = "update_one" /\ pc'[p] = "done"
                     /\ req[p].image_id = i /\ req[p].age_group = g
                     /\ g \notin DOMAIN locals[p].baby_record[2].age_versions]_vars

\* The race happened: two writes for one pair, with different payloads, and the
\* record holds the later one.
C5_Witness ==
    \E a, b \in 1..Len(writeLog) :
        /\ a < b
        /\ writeLog[a][1] = writeLog[b][1] /\ writeLog[a][2] = writeLog[b][2]
        /\ writeLog[a][3] # writeLog[b][3]
        /\ store[writeLog[b][1]].age_versions[writeLog[b][2]] = writeLog[b][3]

\* C6 as stated: for a fixed pair at most one generation ever populates
\* age_versions[age_group], and all successful replies carry the same payload.
C6_Original ==
    \A i \in RequestIds, g \in AgePrompts :
        /\ Cardinality(WritesOf(i, g)) <= 1
        /\ Cardinality(ServedOf(i, g)) <= 1

\* C6, amended: the same, for every pair for which no request read the record
\* while another request for the pair had missed the cache and not yet finished.
C6_OnePopulationUnlessRaced ==
    \A i \in RequestIds, g \in AgePrompts :
        <<i, g>> \notin raced =>
            /\ Cardinality(WritesOf(i, g)) <= 1
            /\ Cardinality(ServedOf(i, g)) <= 1

\* Without a race: one request generated and wrote, a later one was served the
\* same payload from the cache.
C6_Witness ==
    \E p, q \in Procs :
        /\ Returned(p) /\ IsAge(p) /\ reply[p].path = "generated"
        /\ Returned(q) /\ IsAge(q) /\ reply[q].path = "cache" /\ SamePair(p, q)
        /\ reply[p].image_data = reply[q].image_data
        /\ <<req[p].image_id, req[p].age_group>> \notin raced


\* C7: when compositing fails inside add_watermark (the payload is no base64,
\* no image, or drawing or saving raises), nothing is raised: the reply is a
\* success whose watermarked_image is exactly the payload that was sent.
C7_WatermarkFallsBack ==
    \A p \in Procs :
        (IsWatermark(p) /\ pc[p] = "done" /\ reply[p].path = "fallback") =>
            /\ reply[p].kind = "returned"
            /\ reply[p].status_code = 200
            /\ reply[p].success
            /\ reply[p].watermarked_image = Some(req[p].image_data)
            /\ IsNone(reply[p].error)

\* Malformed base64 was sent, and an image whose drawing failed.
C7_Witness ==
    \E p, q \in Procs :
        /\ IsWatermark(p) /\ reply[p].path = "fallback" /\ ~B64Decode(req[p].image_data).ok
        /\ IsWatermark(q) /\ reply[q].path = "fallback" /\ DecodableImage(req[q].image_data)

\* C8 as stated: whatever payload is sent, decodable or not, the payload
\* add_watermark returns is a decodable image.
C8_Original ==
    \A p \in Procs :
        (IsWatermark(p) /\ Returned(p) /\ ~IsNone(reply[p].watermarked_image)) =>
            DecodableImage(Val(reply[p].watermarked_image))

\* C8, amended: for every payload that is itself a decodable image, the payload
\* add_watermark returns is a decodable image.
C8_DecodableStaysDecodable ==
    \A p \in Procs :
        (/\ IsWatermark(p) /\ Returned(p) /\ ~IsNone(reply[p].watermarked_image)
         /\ DecodableImage(req[p].image_data)) =>
            DecodableImage(Val(reply[p].watermarked_image))

\* A decodable image was composited into a new payload.
C8_Witness ==
    \E p \in Procs :
        /\ IsWatermark(p) /\ Returned(p) /\ reply[p].path = "composited"
        /\ DecodableImage(req[p].image_data)
        /\ reply[p].watermarked_image # Some(req[p].image_data)

\* C9 as stated: no operation ever raises; each ends by returning a result.
C9_Original ==
    \A p \in Procs : pc[p] = "done" => reply[p].kind = "returned"

\* C9, amended: watermark always returns a result; generate_baby and
\* generate_age_variant return a result too, every exception of the image agent,
\* the fetch and the store calls being turned into a failure, except that with no
\* database attached to the application they raise HTTPException(503) before any
\* collaborator is called.
C9_OnlyDbNotReadyRaises ==
    \A p \in Procs :
        pc[p] = "done" =>
            \/ reply[p].kind = "returned"
            \/ /\ reply[p].kind = "raised"
               /\ reply[p].status_code = 503
               /\ reply[p].error = Some(DbNotReady)
               /\ IsBaby(p) \/ IsAge(p)
               /\ MadeNoCall(p)

\* One request was refused with 503; later a store call raised and the handler
\* returned a failure.
C9_Witness ==
    \E p, q \in Procs :
        /\ pc[p] = "done" /\ reply[p].kind = "raised"
        /\ Returned(q) /\ reply[q].path = "exception" /\ ~reply[q].success
        /\ calls[q].find_one + calls[q].insert_one + calls[q].update_one > 0

\* C10: a request whose record id find_one does not find calls neither the
\* image agent nor the fetch nor a store write, and returns a failure whose error
\* differs from the error of a failed generation on an existing record.
C10_NotFoundIsDistinct ==
    \A p \in Procs :
        (IsAge(p) /\ locals[p].baby_record = <<"none">>) =>
            /\ Returned(p)
            /\ ~reply[p].success
            /\ ~IsNone(reply[p].error) /\ Val(reply[p].error) # ""
            /\ calls[p].agent = 0 /\ calls[p].fetch = 0
            /\ calls[p].insert_one = 0 /\ calls[p].update_one = 0
            /\ \A q \in Procs :
                 (/\ IsAge(q) /\ Returned(q) /\ locals[q].baby_record[1] = "doc"
                  /\ reply[q].path \in {"generation_failed", "invalid_age_group"})
                     => reply[q].error # reply[p].error

\* One request named an unknown record; another's generation failed on an
\* existing record.
C10_Witness ==
    \E p, q \in Procs :
        /\ IsAge(p) /\ locals[p].baby_record = <<"none">> /\ Returned(p)
        /\ IsAge(q) /\ Returned(q) /\ reply[q].path = "generation_failed"
        /\ calls[q].agent = 1


\* The step in which p's update_one is applied.
WritesVariant(p) == pc[p] = "update_one" /\ pc'[p] = "done" /\ reply'[p].success

\* C11: the write of a generate_age_variant request for (id, g) changes only
\* age_versions[g] of record id: the record's id, name, original_image,
\* created_at and other age groups stay, and so does every other record.
C11_WriteTouchesOnePath ==
    [][\A p \in Procs :
        WritesVariant(p) =>
            LET i == req[p].image_id
                g == req[p].age_group
            IN  /\ DOMAIN store' = DOMAIN store
                /\ \A j \in DOMAIN store \ {i} : store'[j] = store[j]
                /\ i \in DOMAIN store =>
                     /\ store'[i].id = store[i].id
                     /\ store'[i].name = store[i].name
                     /\ store'[i].original_image = store[i].original_image
                     /\ store'[i].created_at = store[i].created_at
                     /\ DOMAIN store'[i].age_versions = DOMAIN store[i].age_versions \cup {g}
                     /\ \A k \in DOMAIN store[i].age_versions \ {g} :
                          store'[i].age_versions[k] = store[i].age_versions[k]
                     /\ store'[i].age_versions[g] = Val(locals[p].image_data)]_vars

\* A record got a second age group beside the first, next to another record.
C11_Witness ==
    \E i, j \in DOMAIN store :
        /\ i # j
        /\ \E p \in Procs : Returned(p) /\ reply[p].path = "generated" /\ req[p].image_id = i
        /\ DOMAIN store[i].age_versions # {}
        /\ store[j].age_versions = EmptyMap

\* The step in which p's insert_one is applied.
CreatesRecord(p) == pc[p] = "insert_one" /\ pc'[p] = "done" /\ reply'[p].success

\* C12: a successful generate_baby adds exactly one record, under an id no
\* stored record has, with the request's name, the returned payload as
\* original_image and no age_versions; the records already stored stay as they
\* are and every stored record is kept under its own id.
C12_CreateAddsOneFreshRecord ==
    [][\A p \in Procs :
        CreatesRecord(p) =>
            LET i == reply'[p].image_id
            IN  /\ i \notin DOMAIN store
                /\ DOMAIN store' = DOMAIN store \cup {i}
                /\ \A j \in DOMAIN store : store'[j] = store[j]
                /\ \A j \in DOMAIN store' : store'[j].id = j
                /\ store'[i].name = req[p].name
                /\ store'[i].original_image = Val(reply'[p].image_data)
                /\ store'[i].age_versions = EmptyMap]_vars

\* Two records were created, under different ids.
C12_Witness ==
    /\ Cardinality(DOMAIN store) = 2
    /\ \E p, q \in Procs :
        /\ p # q /\ Returned(p) /\ Returned(q)
        /\ reply[p].path = "created" /\ reply[q].path = "created"
        /\ reply[p].image_id # reply[q].image_id

\* C13: every stored record has a non-empty original_image, and no step
\* changes the original_image of a stored record.
C13_OriginalImageKept ==
    [][/\ \A i \in DOMAIN store' : store'[i].original_image # EmptyStr
       /\ \A i \in DOMAIN store :
            i \in DOMAIN store' /\ store'[i].original_image = store[i].original_image]_vars

\* A record kept its original image through an age-variant write.
C13_Witness ==
    \E i \in DOMAIN store :
        /\ DOMAIN store[i].age_versions # {}
        /\ DecodableImage(store[i].original_image)

\* The step in which p handles a watermark request.
Watermarks(p) == pc[p] \in {"idle", "done"} /\ clock' # clock /\ req'[p].op = "watermark"

\* C14: a watermark call, succeeding or failing, calls no store operation and
\* leaves every stored record as it was.
C14_WatermarkLeavesStore ==
    [][\A p \in Procs :
        Watermarks(p) =>
            /\ store' = store
            /\ calls'[p].find_one = 0
            /\ calls'[p].insert_one = 0
            /\ calls'[p].update_one = 0]_vars

\* A watermark request was answered while a record with a variant was stored.
C14_Witness ==
    \E p \in Procs, i \in DOMAIN store :
        /\ IsWatermark(p) /\ Returned(p) /\ reply[p].success
        /\ DOMAIN store[i].age_versions # {}


\* The host of a URL.
Host(url) == url[2]

\* C15 as stated: a fetch is issued only for a URL whose host is the storage
\* domain; a URL with another host, also one that has the domain string in its
\* path, is not fetched and the result is a failure.
C15_Original ==
    \A p \in Procs :
        /\ calls[p].fetched_url # NoUrl => Host(calls[p].fetched_url) = StorageDomain
        /\ (Returned(p) /\ reply[p].success /\ reply[p].path \in {"created", "generated"}) =>
              Host(calls[p].fetched_url) = StorageDomain

\* The positions at which a request waits for ImageAgent.execute.
Executing == {"baby_execute", "aged_execute"}

\* The positions at which a request waits for its store write.
Writing == {"insert_one", "update_one"}

\* C16: within one generate_baby or generate_age_variant request the fetch is
\* made only in the step in which the capability call returns, a store write is
\* issued only with a fetch that returned status 200 behind it, and the store
\* changes only when such a write is applied.
C16_AgentThenFetchThenWrite ==
    [][/\ \A p \in Procs :
            /\ pc'[p] \in Executing =>
                 /\ calls'[p].fetch = 0
                 /\ calls'[p].insert_one = 0 /\ calls'[p].update_one = 0
            /\ calls'[p].fetch > calls[p].fetch =>
                 pc[p] \in Executing /\ calls[p].agent = 1 /\ pc'[p] \notin Executing
            /\ pc'[p] \in Writing =>
                 /\ calls'[p].agent = 1 /\ calls'[p].fetch = 1
                 /\ calls'[p].fetch_status = 200
                 /\ ~IsNone(locals'[p].image_data)
            /\ (CreatesRecord(p) \/ WritesVariant(p)) =>
                 calls[p].agent = 1 /\ calls[p].fetch = 1 /\ calls[p].fetch_status = 200
       /\ store' # store => \E p \in Procs : CreatesRecord(p) \/ WritesVariant(p)]_vars

\* Both kinds of request went the whole way: agent, fetch, write.
C16_Witness ==
    \E p, q \in Procs :
        /\ Returned(p) /\ reply[p].path = "created" /\ calls[p].fetch = 1
        /\ Returned(q) /\ reply[q].path = "generated" /\ calls[q].fetch = 1
        /\ calls[q].find_one = 1 /\ calls[q].update_one = 1

\* The last update_one applied for a pair.
LastWrite(image_id, age_group) ==
    LET ws == WritesOf(image_id, age_group)
    IN  writeLog[CHOOSE a \in ws : \A b \in ws : b <= a]

\* C17: nothing excludes two first-time requests for the same (record id, age
\* group) from each other; whatever writes were applied for a pair, the record
\* holds the payload of the one applied last.
C17_LastWriteStored ==
    \A i \in RequestIds, g \in AgePrompts :
        WritesOf(i, g) # {} =>
            /\ i \in DOMAIN store
            /\ g \in DOMAIN store[i].age_versions
            /\ store[i].age_versions[g] = LastWrite(i, g)[3]

\* The interleaving: two requests for one pair both read the record without the
\* entry, both called the agent, both writes were applied with different
\* payloads, and the record holds the one written last.
C17_Witness ==
    \E p, q \in Procs :
        LET i == req[p].image_id
            g == req[p].age_group
        IN  /\ p # q /\ IsAge(p) /\ SamePair(p, q)
            /\ Returned(p) /\ reply[p].path = "generated"
            /\ Returned(q) /\ reply[q].path = "generated"
            /\ g \notin DOMAIN locals[p].baby_record[2].age_versions
            /\ g \notin DOMAIN locals[q].baby_record[2].age_versions
            /\ calls[p].agent = 1 /\ calls[q].agent = 1
            /\ Cardinality(WritesOf(i, g)) = 2
            /\ reply[p].image_data # reply[q].image_data
            /\ store[i].age_versions[g] = Val(reply[q].image_data)
            /\ LastWrite(i, g)[3] = Val(reply[q].image_data)

\* The step in which p's call of ImageAgent.execute comes back.
ExecuteReturns(p) == pc[p] \in Executing /\ pc'[p] # pc[p]

\* C18: when the generation gives no payload (the agent reports failure or
\* raises, no URL is trusted, the fetch raises or answers a status other than
\* 200), the request ends there with a failure: no write is issued and the store
\* is as it was.
C18_FailedGenerationLeavesStore ==
    [][\A p \in Procs :
        /\ (ExecuteReturns(p) /\ calls'[p].fetch_status # 200) =>
             /\ pc'[p] = "done"
             /\ ~reply'[p].success
             /\ calls'[p].insert_one = 0 /\ calls'[p].update_one = 0
             /\ store' = store
        /\ (ExecuteReturns(p) /\ pc'[p] = "done") =>
             /\ ~reply'[p].success
             /\ calls'[p].insert_one = 0 /\ calls'[p].update_one = 0
             /\ store' = store]_vars

\* A fetch answered 404 for an age variant of a stored record, and the record
\* has no entry.
C18_Witness ==
    \E p \in Procs :
        /\ IsAge(p) /\ Returned(p) /\ reply[p].path = "generation_failed"
        /\ calls[p].fetch = 1 /\ calls[p].fetch_status \notin {0, 200}
        /\ req[p].image_id \in DOMAIN store
        /\ store[req[p].image_id].age_versions = EmptyMap

\* C19: a request calls the agent at most once and fetches at most once, and a
\* fetch that raises or answers a status other than 200 ends the request with a
\* failure that carries no payload.
C19_NoRetry ==
    \A p \in Procs :
        /\ calls[p].agent <= 1
        /\ calls[p].fetch <= 1
        /\ (calls[p].fetch >= 1 /\ calls[p].fetch_status # 200) =>
              /\ Returned(p)
              /\ ~reply[p].success
              /\ IsNone(reply[p].image_data)

\* A fetch timed out and the request failed after that single attempt.
C19_Witness ==
    \E p \in Procs :
        /\ IsBaby(p) /\ Returned(p) /\ ~reply[p].success
        /\ calls[p].agent = 1 /\ calls[p].fetch = 1 /\ calls[p].fault = "fetch"

\* C20: when ImageAgent.execute or requests.get raises, the generator returns
\* no payload and raises nothing: the handler replies with its own generation
\* failure, not with the exception's text.
C20_FaultIsolating ==
    \A p \in Procs :
        calls[p].fault \in {"agent", "fetch"} =>
            /\ Returned(p)
            /\ reply[p].path = "generation_failed"
            /\ ~reply[p].success
            /\ IsNone(reply[p].image_data)
            /\ reply[p].error = Some(IF IsBaby(p) THEN BabyFailed ELSE AgedFailed)

\* The agent raised inside generate_aged_image and inside generate_baby_image.
C20_Witness ==
    \E p, q \in Procs :
        /\ IsAge(p) /\ Returned(p) /\ calls[p].fault = "agent"
        /\ IsBaby(q) /\ Returned(q) /\ calls[q].fault = "agent"


\* C21: for a raster of width W and height H and a measured text of size
\* (tw, th): the font size is the larger of 20 and the floor of 0.04 H, the text
\* starts at x = floor((W - tw) / 2), y = H - th - 20, and the box is the text's
\* rectangle widened by 10 on every side; so the box's left and right margins
\* differ by at most one pixel and its bottom edge is no further than 20 + th
\* from the raster's bottom edge.
C21_WatermarkPlacement ==
    LET W == layout.width
        H == layout.height
        tw == layout.text_width
        th == layout.text_height
        f == layout.font_size
        box == layout.box
    IN  /\ layout.stage \in {"measured", "drawn"} =>
             /\ f >= 20
             /\ 100 * f >= 4 * H - 99
             /\ f = 20 \/ (100 * f <= 4 * H /\ 4 * H < 100 * (f + 1))
        /\ layout.stage = "drawn" =>
             /\ 2 * layout.x <= W - tw /\ W - tw < 2 * layout.x + 2
             /\ layout.y = H - th - 20
             /\ box.left = layout.x - 10 /\ box.right = layout.x + tw + 10
             /\ box.top = layout.y - 10 /\ box.bottom = layout.y + th + 10
             /\ (W - box.right) - box.left \in {0, 1}
             /\ H - box.bottom >= 0 /\ H - box.bottom <= 20 + th

\* A placement with the font size above its lower limit and an odd W - tw.
C21_Witness ==
    /\ layout.stage = "drawn"
    /\ layout.font_size > 20
    /\ (layout.width - layout.text_width) % 2 = 1
    /\ layout.text_width > 0 /\ layout.text_height > 0


\* C22: the keys of every stored record's age_versions are among baby, child,
\* teen and adult: no update_one is issued or applied for an age group outside
\* the enumeration.
C22_KeysWithinEnumeration ==
    /\ \A i \in DOMAIN store :
         DOMAIN store[i].age_versions \subseteq {"baby", "child", "teen", "adult"}
    /\ \A a \in 1..Len(writeLog) : writeLog[a][2] \in {"baby", "child", "teen", "adult"}
    /\ \A p \in Procs :
         (IsAge(p) /\ req[p].age_group \notin {"baby", "child", "teen", "adult"}) =>
             /\ pc[p] # "update_one"
             /\ calls[p].update_one = 0

\* A record holds a variant, and a request for an age group outside the
\* enumeration was rejected for that record.
C22_Witness ==
    \E p \in Procs :
        /\ InvalidGroup(p) /\ Returned(p) /\ ~reply[p].success
        /\ req[p].image_id \in DOMAIN store
        /\ DOMAIN store[req[p].image_id].age_versions # {}
        /\ locals[p].baby_record[1] = "doc"
        /\ DOMAIN locals[p].baby_record[2].age_versions # {}


\* The first URL of a content is one that holds the storage domain.
FirstUrlTrusted(content) ==
    LET urls == FindAllUrls(content)
    IN  urls # <<>> /\ ContainsStorageDomain(urls[1])

\* C23: a generator method returns a payload exactly when the agent was called
\* and reported success, tools_used is truthy, the first URL of the content holds
\* the storage domain and the fetch answered 200; with tools_used false, or with
\* an untrusted first URL before a trusted one, it returns none and fetches
\* nothing.
C23_PayloadExactlyWhen ==
    attempt.stage = "returned" =>
        LET result == attempt.result
            response == attempt.response
        IN  /\ ~IsNone(attempt.image) <=>
                 /\ attempt.agent_calls = 1 /\ ~result.raises
                 /\ result.success
                 /\ result.tools_used
                 /\ FirstUrlTrusted(result.content)
                 /\ ~response.raises /\ response.status_code = 200
            /\ (~result.tools_used \/ ~FirstUrlTrusted(result.content)) =>
                 IsNone(attempt.image) /\ attempt.fetches = 0
            /\ ~IsNone(attempt.image) => attempt.fetches = 1

\* The agent answered an untrusted URL before a trusted one and the fetch would
\* have answered 200: nothing was fetched and nothing returned.
C23_Witness ==
    /\ attempt.stage = "returned"
    /\ attempt.agent_calls = 1
    /\ attempt.result.success /\ attempt.result.tools_used
    /\ Len(FindAllUrls(attempt.result.content)) = 2
    /\ ~FirstUrlTrusted(attempt.result.content)
    /\ attempt.response.status_code = 200
    /\ IsNone(attempt.image) /\ attempt.fetches = 0

====
